---- MODULE Spec2Model ----
(***************************************************************************)
(* A model of caldav/objects.py: the DAV object hierarchy of a CalDAV      *)
(* client (DAVObject, CalendarSet, Principal, Calendar,                    *)
(* CalendarObjectResource).                                                *)
(*                                                                         *)
(* The HTTP transport, the URL class, the error table, the iCalendar codec *)
(* and the text fixer are collaborators that objects.py imports.  The      *)
(* server is the environment: every response (status, headers, body) is    *)
(* chosen nondeterministically from small sets.                            *)
(*                                                                         *)
(* Strings are modelled as sequences of tokens, so that endswith, joining  *)
(* and splitting are computed and not assumed.  A URL or URL reference is  *)
(* a record [host, abs, segs, slash]: host "" means "no host part", abs    *)
(* says the path starts with "/", segs are the path segments (each a       *)
(* sequence of tokens) and slash says the path ends with "/".              *)
(***************************************************************************)
EXTENDS Integers, Sequences, FiniteSets, TLC

VARIABLES
    op,     \* name of the last method called ("init" before any call)
    arg,    \* the inputs of that call (caller arguments and server replies)
    sent,   \* the requests that call issued, in order: [verb, url]
    err,    \* the error that call raised, "none" when it returned
    ret,    \* what that call returned
    cal,    \* a Calendar object: [url, id, name, parent]
    obj,    \* a CalendarObjectResource: [url, id, data, instance, parent]
    client, \* the session shared by all objects: [url], its base URL
    principals  \* the Principal objects of the session, by name:
                \* [url, calendar_home_set] (the cached CalendarSet's URL)

vars == <<op, arg, sent, err, ret, cal, obj, client, principals>>

\* Longest multistatus body (number of response elements) the server sends.
MaxEntries == 2

--------------------------------------------------------------------------
(* Python values *)

None == "None"
NoErr == "none"
NoExpected == 0 - 1          \* expected_return_value=None
NoSeg == <<>>                \* an id or name that is None
NoText == [form |-> "None", kind |-> "None", uid |-> NoSeg]    \* _data = None
NoInst == [kind |-> "None", uid |-> NoSeg]                     \* _instance = None

(* str.endswith on token sequences *)
EndsWith(s, suffix) ==
    /\ Len(s) >= Len(suffix)
    /\ SubSeq(s, Len(s) - Len(suffix) + 1, Len(s)) = suffix

Front(s) == SubSeq(s, 1, Len(s) - 1)

--------------------------------------------------------------------------
(* caldav.lib.url.URL *)

NoHost == ""
NoneURL == [host |-> "None", abs |-> FALSE, segs |-> <<>>, slash |-> FALSE]
NoRef == [host |-> NoHost, abs |-> FALSE, segs |-> <<>>, slash |-> FALSE]

MkURL(h, s, sl) == [host |-> h, abs |-> TRUE, segs |-> s, slash |-> sl]
MkRef(a, s, sl) == [host |-> NoHost, abs |-> a, segs |-> s, slash |-> sl]

(* A one-segment relative reference made of a name (the str passed to join);
   None and "" are the empty reference. *)
SegRef(seg) == IF seg = NoSeg THEN NoRef ELSE MkRef(FALSE, <<seg>>, FALSE)

(* url.path *)
PathOf(u) == [u EXCEPT !.host = NoHost]

(* url.endswith('/') *)
EndsWithSlash(u) == u.slash

(* url.strip_trailing_slash() *)
StripTrailingSlash(u) == [u EXCEPT !.slash = FALSE]

(* URL.objectify(str(url) + '/') *)
AppendSlash(u) == [u EXCEPT !.slash = TRUE]

(* The directory of a base path: everything up to its last "/". *)
DirOf(base) == IF base.slash \/ base.segs = <<>> THEN base.segs ELSE Front(base.segs)

(* url.join(ref): reference resolution against a base. *)
Join(base, ref) ==
    IF ref = NoRef THEN base
    ELSE IF ref.host # NoHost THEN ref
    ELSE IF ref.abs THEN [ref EXCEPT !.host = base.host]
    ELSE [host |-> base.host, abs |-> base.abs,
          segs |-> DirOf(base) \o ref.segs, slash |-> ref.slash]

(* a Calendar and a CalendarObjectResource with nothing set *)
NoCal == [url |-> NoneURL, id |-> NoSeg, name |-> NoSeg, parent |-> NoneURL]
NoObj == [url |-> NoneURL, id |-> NoSeg, data |-> NoText, instance |-> NoInst,
          parent |-> NoneURL]

--------------------------------------------------------------------------
(* caldav.lib.error *)

exception_by_method(verb) ==
    CASE verb = "propfind"   -> "PropfindError"
      [] verb = "proppatch"  -> "PropsetError"
      [] verb = "mkcalendar" -> "MkcalendarError"
      [] verb = "mkcol"      -> "MkcolError"
      [] verb = "report"     -> "ReportError"
      [] verb = "put"        -> "PutError"
      [] verb = "delete"     -> "DeleteError"
      [] OTHER               -> "DAVError"

--------------------------------------------------------------------------
(* The server's replies *)

Statuses == {200, 201, 204, 207, 302, 400, 404, 500}

OK200 == <<"200", "OK">>
NotFound404 == <<"404", "Not Found">>

StatusLines == { <<"HTTP/1.1">> \o OK200,
                 <<"HTTP/1.1">> \o NotFound404,
                 <<"HTTP/1.1", "403", "Forbidden">> }

(* A response of the transport: status, Location header (NoneURL when the
   header is absent), the response elements of a multistatus body. *)
Response(st, loc, entries) == [status |-> st, location |-> loc, entries |-> entries]

--------------------------------------------------------------------------
(* DAVObject._query *)

QueryMutNo404(verb, expected, r) ==
    IF (expected # NoExpected /\ r.status # expected) \/ r.status >= 400
    THEN [err |-> exception_by_method(verb), resp |-> r]
    ELSE [err |-> NoErr, resp |-> r]

Query(verb, expected, r) ==
    IF r.status = 404
    THEN [err |-> "NotFoundError", resp |-> r]
    ELSE IF (expected # NoExpected /\ r.status # expected) \/ r.status >= 400
    THEN [err |-> exception_by_method(verb), resp |-> r]
    ELSE [err |-> NoErr, resp |-> r]

--------------------------------------------------------------------------
(* Multistatus bodies.  A response element has a status line, an href and,
   for each requested property, the property element: its descendants in
   document order (each [tag, text]) and its own text. *)

ResourceTypeTag == "{DAV:}resourcetype"
CollectionTag == "{DAV:}collection"
CalendarTag == "{urn:ietf:params:xml:ns:caldav}calendar"

Home == <<"home">>
SegA == <<"a">>
SegB == <<"b">>

Elements == { [kids |-> <<>>, text |-> None],
              [kids |-> << [tag |-> CollectionTag, text |-> None],
                           [tag |-> CalendarTag, text |-> None] >>, text |-> None] }

ListingHrefs == { MkRef(TRUE, <<Home>>, FALSE),
                  MkRef(TRUE, <<Home>>, TRUE),
                  MkRef(TRUE, <<Home, SegA>>, TRUE),
                  MkRef(FALSE, <<SegA>>, FALSE) }

Entries == { [href |-> h, status |-> s, elems |-> [t \in {ResourceTypeTag} |-> e]] :
             h \in ListingHrefs, s \in StatusLines, e \in Elements }

RECURSIVE SeqsUpTo(_, _)
SeqsUpTo(S, n) ==
    IF n = 0 THEN { <<>> }
    ELSE LET shorter == SeqsUpTo(S, n - 1)
         IN shorter \cup { Append(q, x) : q \in shorter, x \in S }

EntryLists == SeqsUpTo(Entries, MaxEntries)

Range(s) == { s[i] : i \in DOMAIN s }

--------------------------------------------------------------------------
(* DAVObject._handle_prop_response *)

(* the value extracted for one property element (lines 136-147) *)
PropValue(el, type, what) ==
    IF Len(el.kids) > 0
    THEN LET found == IF type # None
                      THEN SelectSeq(el.kids, LAMBDA k : k.tag = type)
                      ELSE el.kids
         IN IF Len(found) > 0
            THEN (IF what = "tag" THEN found[1].tag ELSE found[1].text)
            ELSE None
    ELSE el.text

(* properties[href] = {}; properties[href][p.tag] = val for p in props *)
PutEntry(properties, r, props, type, what) ==
    [h \in DOMAIN properties \cup {r.href} |->
        IF h = r.href
        THEN [t \in Range(props) |-> PropValue(r.elems[t], type, what)]
        ELSE properties[h]]

RECURSIVE HandleFrom(_, _, _, _, _, _)
HandleFromMutKeep404(entries, i, properties, props, type, what) ==
    IF i > Len(entries) THEN [err |-> NoErr, props |-> properties]
    ELSE IF ~EndsWith(entries[i].status, OK200)
            /\ ~EndsWith(entries[i].status, NotFound404)
    THEN [err |-> "ReportError", props |-> <<>>]
    ELSE HandleFrom(entries, i + 1,
                    PutEntry(properties, entries[i], props, type, what),
                    props, type, what)

HandleFrom(entries, i, properties, props, type, what) ==
    IF i > Len(entries) THEN [err |-> NoErr, props |-> properties]
    ELSE IF ~EndsWith(entries[i].status, OK200)
    THEN IF EndsWith(entries[i].status, NotFound404)
         THEN HandleFrom(entries, i + 1, properties, props, type, what)
         ELSE [err |-> "ReportError", props |-> <<>>]
    ELSE HandleFrom(entries, i + 1,
                    PutEntry(properties, entries[i], props, type, what),
                    props, type, what)

HandlePropResponse(entries, props, type, what) ==
    HandleFrom(entries, 1, <<>>, props, type, what)

--------------------------------------------------------------------------
(* DAVObject.children *)

ChildrenMutNoStrip(url, type, r) ==
    LET q == Query("propfind", NoExpected, r)
        p == HandlePropResponse(r.entries, <<ResourceTypeTag>>, type, "tag")
    IN  IF q.err # NoErr THEN [err |-> q.err, ret |-> {}]
        ELSE IF p.err # NoErr THEN [err |-> p.err, ret |-> {}]
        ELSE [err |-> NoErr,
              ret |-> { <<Join(url, path), p.props[path][ResourceTypeTag]>> :
                        path \in { h \in DOMAIN p.props :
                            /\ (p.props[h][ResourceTypeTag] = type \/ type = None)
                            /\ url # Join(url, h) } }]

Children(url, type, r) ==
    LET q == Query("propfind", NoExpected, r)
        p == HandlePropResponse(r.entries, <<ResourceTypeTag>>, type, "tag")
    IN  IF q.err # NoErr THEN [err |-> q.err, ret |-> {}]
        ELSE IF p.err # NoErr THEN [err |-> p.err, ret |-> {}]
        ELSE [err |-> NoErr,
              ret |-> { <<Join(url, path), p.props[path][ResourceTypeTag]>> :
                        path \in { h \in DOMAIN p.props :
                            /\ (p.props[h][ResourceTypeTag] = type \/ type = None)
                            /\ StripTrailingSlash(url)
                                 # StripTrailingSlash(Join(url, h)) } }]

--------------------------------------------------------------------------
(* The log of one call: each request with the reply the server gave. *)

Req(verb, url, r) == [verb |-> verb, url |-> url, reply |-> r]
Reply(st) == Response(st, NoneURL, <<>>)

--------------------------------------------------------------------------
(* DAVObject.delete *)

DeleteMutStrict(url, r) ==
    IF url # NoneURL
    THEN [sent |-> << Req("delete", url, r) >>,
          err |-> IF r.status \notin {200, 204} THEN "DeleteError" ELSE NoErr]
    ELSE [sent |-> <<>>, err |-> NoErr]

Delete(url, r) ==
    IF url # NoneURL
    THEN [sent |-> << Req("delete", url, r) >>,
          err |-> IF r.status \notin {200, 204, 404} THEN "DeleteError" ELSE NoErr]
    ELSE [sent |-> <<>>, err |-> NoErr]

--------------------------------------------------------------------------
(* DAVObject.get_properties *)

(* a PROPFIND as logged: the properties it asks for tell the requests of
   get_properties and of children apart *)
PropReq(url, props, r) ==
    [verb |-> "propfind", url |-> url, reply |-> r, props |-> props]

(* self.url.path + '/': a path that already ends with "/" gets an empty
   last segment ("/home//") *)
ExchangePath(path) ==
    IF path.slash THEN [path EXCEPT !.segs = Append(@, <<>>)]
    ELSE [path EXCEPT !.slash = TRUE]

PathError == "Exception"     \* "... a problem with path handling."

GetPropertiesMutAnyEntry(url, props, r) ==
    LET q == Query("propfind", NoExpected, r)
        p == HandlePropResponse(r.entries, props, None, "text")
        path == PathOf(url)
        exchange_path == ExchangePath(path)
        s == << PropReq(url, props, r) >>
    IN  IF q.err # NoErr THEN [sent |-> s, err |-> q.err, ret |-> <<>>]
        ELSE IF p.err # NoErr THEN [sent |-> s, err |-> p.err, ret |-> <<>>]
        ELSE IF path \in DOMAIN p.props
        THEN [sent |-> s, err |-> NoErr, ret |-> p.props[path]]
        ELSE IF exchange_path \in DOMAIN p.props
        THEN [sent |-> s, err |-> NoErr, ret |-> p.props[exchange_path]]
        ELSE IF DOMAIN p.props # {}
        THEN [sent |-> s, err |-> NoErr,
              ret |-> p.props[CHOOSE h \in DOMAIN p.props : TRUE]]
        ELSE [sent |-> s, err |-> PathError, ret |-> <<>>]

GetProperties(url, props, r) ==
    LET q == Query("propfind", NoExpected, r)
        p == HandlePropResponse(r.entries, props, None, "text")
        path == PathOf(url)
        exchange_path == ExchangePath(path)
        s == << PropReq(url, props, r) >>
    IN  IF q.err # NoErr THEN [sent |-> s, err |-> q.err, ret |-> <<>>]
        ELSE IF p.err # NoErr THEN [sent |-> s, err |-> p.err, ret |-> <<>>]
        ELSE IF path \in DOMAIN p.props
        THEN [sent |-> s, err |-> NoErr, ret |-> p.props[path]]
        ELSE IF exchange_path \in DOMAIN p.props
        THEN [sent |-> s, err |-> NoErr, ret |-> p.props[exchange_path]]
        ELSE [sent |-> s, err |-> PathError, ret |-> <<>>]

--------------------------------------------------------------------------
(* DAVObject.set_properties *)

(* a PROPPATCH reply whose body holds the given status lines *)
PatchReply(st, lines) ==
    Response(st, NoneURL, [i \in DOMAIN lines |-> [status |-> lines[i]]])

SetPropertiesMutFirstLine(url, r) ==
    LET q == Query("proppatch", NoExpected, r)
    IN  [sent |-> << Req("proppatch", url, r) >>,
         err |-> IF q.err # NoErr THEN q.err
                 ELSE IF r.entries # <<>> /\ ~EndsWith(r.entries[1].status, OK200)
                 THEN "PropsetError"
                 ELSE NoErr]

SetProperties(url, r) ==
    LET q == Query("proppatch", NoExpected, r)
    IN  [sent |-> << Req("proppatch", url, r) >>,
         err |-> IF q.err # NoErr THEN q.err
                 ELSE IF \E i \in DOMAIN r.entries : ~EndsWith(r.entries[i].status, OK200)
                 THEN "PropsetError"
                 ELSE NoErr]

--------------------------------------------------------------------------
(* Calendar._create and Calendar.save.  c is the Calendar, fresh the value
   uuid.uuid1() would give, mk, pp, dl and probe the server's replies to the
   MKCALENDAR, the PROPPATCH, the DELETE and the name-based probe. *)

CreateCalendarMutAlwaysName(c, fresh, mk, pp, dl, probe) ==
    LET id == IF c.id = NoSeg THEN fresh ELSE c.id
        path == Join(c.parent, SegRef(id))
        c1 == [c EXCEPT !.id = id, !.url = path]
        q == Query("mkcalendar", 201, mk)
        s1 == << Req("mkcalendar", path, mk) >>
        sp == SetProperties(c1.url, pp)
        d == Delete(c1.url, dl)
        zimbra_url == Join(c.parent, SegRef(c.name))
    IN  IF q.err # NoErr
        THEN [cal |-> c1, sent |-> s1, err |-> q.err]
        ELSE IF c.name # NoSeg /\ sp.err # NoErr
        THEN [cal |-> c1, sent |-> s1 \o sp.sent \o d.sent,
              err |-> IF d.err # NoErr THEN d.err ELSE sp.err]
        ELSE [cal |-> [c1 EXCEPT !.url = zimbra_url],
              sent |-> (IF c.name # NoSeg THEN s1 \o sp.sent ELSE s1)
                           \o << Req("request", zimbra_url, probe) >>,
              err |-> NoErr]

CreateCalendarMutAny2xx(c, fresh, mk, pp, dl, probe) ==
    LET id == IF c.id = NoSeg THEN fresh ELSE c.id
        path == Join(c.parent, SegRef(id))
        c1 == [c EXCEPT !.id = id, !.url = path]
        q == Query("mkcalendar", NoExpected, mk)
        s1 == << Req("mkcalendar", path, mk) >>
        sp == SetProperties(c1.url, pp)
        d == Delete(c1.url, dl)
        zimbra_url == Join(c.parent, SegRef(c.name))
    IN  IF q.err # NoErr
        THEN [cal |-> c1, sent |-> s1, err |-> q.err]
        ELSE IF c.name # NoSeg /\ sp.err # NoErr
        THEN (* except: self.delete(); raise *)
             [cal |-> c1, sent |-> s1 \o sp.sent \o d.sent,
              err |-> IF d.err # NoErr THEN d.err ELSE sp.err]
        ELSE [cal |-> IF probe.status = 404 THEN c1 ELSE [c1 EXCEPT !.url = zimbra_url],
              sent |-> (IF c.name # NoSeg THEN s1 \o sp.sent ELSE s1)
                           \o << Req("request", zimbra_url, probe) >>,
              err |-> NoErr]

CreateCalendar(c, fresh, mk, pp, dl, probe) ==
    LET id == IF c.id = NoSeg THEN fresh ELSE c.id
        path == Join(c.parent, SegRef(id))
        c1 == [c EXCEPT !.id = id, !.url = path]
        q == Query("mkcalendar", 201, mk)
        s1 == << Req("mkcalendar", path, mk) >>
        sp == SetProperties(c1.url, pp)
        d == Delete(c1.url, dl)
        zimbra_url == Join(c.parent, SegRef(c.name))
    IN  IF q.err # NoErr
        THEN [cal |-> c1, sent |-> s1, err |-> q.err]
        ELSE IF c.name # NoSeg /\ sp.err # NoErr
        THEN (* except: self.delete(); raise *)
             [cal |-> c1, sent |-> s1 \o sp.sent \o d.sent,
              err |-> IF d.err # NoErr THEN d.err ELSE sp.err]
        ELSE [cal |-> IF probe.status = 404 THEN c1 ELSE [c1 EXCEPT !.url = zimbra_url],
              sent |-> (IF c.name # NoSeg THEN s1 \o sp.sent ELSE s1)
                           \o << Req("request", zimbra_url, probe) >>,
              err |-> NoErr]

SaveCalendarMutNoSlash(c, fresh, mk, pp, dl, probe) ==
    IF c.url = NoneURL
    THEN CreateCalendar(c, fresh, mk, pp, dl, probe)
    ELSE [cal |-> c, sent |-> <<>>, err |-> NoErr]

SaveCalendar(c, fresh, mk, pp, dl, probe) ==
    IF c.url = NoneURL
    THEN LET r == CreateCalendar(c, fresh, mk, pp, dl, probe)
         IN  IF r.err # NoErr THEN r
             ELSE IF ~EndsWithSlash(r.cal.url)
             THEN [r EXCEPT !.cal.url = AppendSlash(r.cal.url)]
             ELSE r
    ELSE [cal |-> c, sent |-> <<>>, err |-> NoErr]

--------------------------------------------------------------------------
(* CalendarSet.  chs is the CalendarSet's URL, cl the session. *)

(* Calendar(client, url, parent=..., name=..., id=...): DAVObject.__init__
   joins a given url onto the session's base URL *)
NewCalendar(cl, url, parent, name, id) ==
    [url |-> IF url # NoneURL THEN Join(cl.url, url) ELSE NoneURL,
     id |-> id, name |-> name, parent |-> parent]

CalendarSetCalendars(chs, cl, r) ==
    LET c == Children(chs, CalendarTag, r)
    IN  [sent |-> << PropReq(chs, <<ResourceTypeTag>>, r) >>,
         err |-> c.err,
         ret |-> { NewCalendar(cl, x[1], chs, NoSeg, NoSeg) : x \in c.ret }]

CalendarSetMakeCalendar(chs, cl, name, cal_id, fresh, mk, pp, dl, probe) ==
    SaveCalendar(NewCalendar(cl, NoneURL, chs, name, cal_id), fresh, mk, pp, dl, probe)

CalendarSetCalendar(chs, cl, name, cal_id) ==
    NewCalendar(cl, Join(chs, SegRef(cal_id)), chs, name, cal_id)

--------------------------------------------------------------------------
(* Principal.  pr is the Principal [url, calendar_home_set], cl the session;
   calendar_home_set is NoneURL while _calendar_home_set is None. *)

HomeSetTag == "{urn:ietf:params:xml:ns:caldav}calendar-home-set"
PrincipalTag == "{DAV:}current-user-principal"
HrefTag == "{DAV:}href"

(* Principal(client, url): r answers the current-user-principal PROPFIND
   that is sent when no url is given *)
NewPrincipal(cl, url, r) ==
    IF url # NoneURL
    THEN [pr |-> [url |-> Join(cl.url, url), calendar_home_set |-> NoneURL],
          sent |-> <<>>, err |-> NoErr]
    ELSE LET cup == GetProperties(cl.url, <<PrincipalTag>>, r)
         IN  IF cup.err # NoErr
             THEN [pr |-> [url |-> cl.url, calendar_home_set |-> NoneURL],
                   sent |-> cup.sent, err |-> cup.err]
             ELSE [pr |-> [url |-> Join(cl.url, cup.ret[PrincipalTag]),
                           calendar_home_set |-> NoneURL],
                   sent |-> cup.sent, err |-> NoErr]

(* the calendar_home_set setter, given the href text of the property *)
SetHomeSetMutAlwaysRepoint(cl, pr, url) ==
    LET sanitized_url == url
        cl1 == IF sanitized_url.host # NoHost
               THEN [cl EXCEPT !.url = sanitized_url]
               ELSE cl
    IN  [client |-> cl1,
         pr |-> [pr EXCEPT !.calendar_home_set =
                     Join(cl1.url, Join(cl1.url, sanitized_url))]]

SetHomeSet(cl, pr, url) ==
    LET sanitized_url == url
        cl1 == IF sanitized_url.host # NoHost /\ sanitized_url.host # cl.url.host
               THEN [cl EXCEPT !.url = sanitized_url]
               ELSE cl
    IN  [client |-> cl1,
         pr |-> [pr EXCEPT !.calendar_home_set =
                     Join(cl1.url, Join(cl1.url, sanitized_url))]]

(* the calendar_home_set getter; r answers the PROPFIND it may send *)
HomeSetMutNoCache(cl, pr, r) ==
    LET chs == GetProperties(pr.url, <<HomeSetTag>>, r)
        set == SetHomeSet(cl, pr, chs.ret[HomeSetTag])
    IN  IF chs.err # NoErr
        THEN [client |-> cl, pr |-> pr, sent |-> chs.sent, err |-> chs.err]
        ELSE [client |-> set.client, pr |-> set.pr, sent |-> chs.sent, err |-> NoErr]

HomeSet(cl, pr, r) ==
    IF pr.calendar_home_set = NoneURL
    THEN LET chs == GetProperties(pr.url, <<HomeSetTag>>, r)
             set == SetHomeSet(cl, pr, chs.ret[HomeSetTag])
         IN  IF chs.err # NoErr
             THEN [client |-> cl, pr |-> pr, sent |-> chs.sent, err |-> chs.err]
             ELSE [client |-> set.client, pr |-> set.pr, sent |-> chs.sent,
                   err |-> NoErr]
    ELSE [client |-> cl, pr |-> pr, sent |-> <<>>, err |-> NoErr]

--------------------------------------------------------------------------
(* iCalendar text and its parsed form.  A parsed object is its component
   kind and UID.  A text is one of the renderings of an object: "quirky"
   (with the irregularities vcal.fix repairs), "plain" (what vcal.fix makes
   of it) or "canonical" (what serialize() writes); or it is "garbage",
   which no parser accepts. *)

Instance(kind, uid) == [kind |-> kind, uid |-> uid]
Text(form, inst) == [form |-> form, kind |-> inst.kind, uid |-> inst.uid]
Garbage == [form |-> "garbage", kind |-> "None", uid |-> <<>>]

(* vcal.fix *)
Fix(text) == IF text.form = "quirky" THEN [text EXCEPT !.form = "plain"] ELSE text

(* vobject.readOne: raises on text it cannot parse *)
Parses(text) == text.form \in {"plain", "canonical"}
ReadOne(text) == Instance(text.kind, text.uid)

(* instance.serialize() *)
Serialize(inst) == Text("canonical", inst)

--------------------------------------------------------------------------
(* CalendarObjectResource.set_data, set_instance, load *)

SetData(o, data) ==
    LET fixed == Fix(data)
    IN  IF Parses(fixed)
        THEN [obj |-> [o EXCEPT !.data = fixed, !.instance = ReadOne(fixed)],
              err |-> NoErr]
        ELSE [obj |-> [o EXCEPT !.data = fixed], err |-> "ParseError"]

SetInstance(o, inst) ==
    [obj |-> [o EXCEPT !.instance = inst, !.data = Serialize(inst)], err |-> NoErr]

(* r is the reply to the GET, raw its body *)
Load(o, r, raw) ==
    IF r.status = 404
    THEN [obj |-> o, sent |-> << Req("request", o.url, r) >>, err |-> "NotFoundError"]
    ELSE [obj |-> SetData(o, Fix(raw)).obj,
          sent |-> << Req("request", o.url, r) >>,
          err |-> SetData(o, Fix(raw)).err]

--------------------------------------------------------------------------
(* CalendarObjectResource._create and save *)

Ics == ".ics"
SupportedKinds == {"vevent", "vtodo", "vjournal", "vfreebusy"}

(* str(path).endswith('.ics') *)
PathEndsWithIcs(path) ==
    /\ ~path.slash
    /\ path.segs # <<>>
    /\ EndsWith(path.segs[Len(path.segs)], <<Ics>>)

\* re.search(...).group(2) at line 559: the pattern matches a path segment up
\* to ".ics"; search takes the leftmost segment that holds ".ics" and the
\* greedy group runs to its last ".ics".
IdFromPath(path) ==
    LET hits == { k \in DOMAIN path.segs : \E j \in DOMAIN path.segs[k] : path.segs[k][j] = Ics }
        k == CHOOSE x \in hits : \A y \in hits : x <= y
        seg == path.segs[k]
        j == CHOOSE x \in DOMAIN seg : seg[x] = Ics /\ \A y \in DOMAIN seg : seg[y] = Ics => y <= x
    IN  SubSeq(seg, 1, j - 1)

PutReq(url, body, r) == [verb |-> "put", url |-> url, reply |-> r, body |-> body]

CreateObjectMutAccept200(o, data, id0, path0, r) ==
    LET id == IF id0 = NoSeg /\ path0 # NoneURL /\ PathEndsWithIcs(path0)
              THEN IdFromPath(path0)
              ELSE IF id0 = NoSeg
              THEN (IF o.instance.kind \in SupportedKinds THEN o.instance.uid ELSE NoSeg)
              ELSE id0
        rel == IF path0 = NoneURL THEN SegRef(id \o <<Ics>>) ELSE path0
        target == Join(o.parent, rel)
        put == << PutReq(target, data, r) >>
    IN  IF path0 = NoneURL /\ id = NoSeg
        THEN [obj |-> o, sent |-> <<>>, err |-> "TypeError"]
        ELSE IF r.status = 302
        THEN (IF r.location = NoneURL
              THEN [obj |-> o, sent |-> put, err |-> "IndexError"]
              ELSE [obj |-> [o EXCEPT !.url = r.location, !.id = id],
                    sent |-> put, err |-> NoErr])
        ELSE IF r.status \notin {204, 201, 200}
        THEN [obj |-> o, sent |-> put, err |-> "PutError"]
        ELSE [obj |-> [o EXCEPT !.url = target, !.id = id], sent |-> put, err |-> NoErr]

CreateObjectMutIdFromPreset(o, data, id0, path0, r) ==
    LET id == IF id0 = NoSeg /\ path0 # NoneURL /\ PathEndsWithIcs(path0)
              THEN IdFromPath(path0)
              ELSE IF id0 = NoSeg
              THEN (IF o.instance.kind \in SupportedKinds THEN o.instance.uid ELSE NoSeg)
              ELSE id0
        rel == IF path0 = NoneURL THEN SegRef(id \o <<Ics>>) ELSE path0
        target == Join(o.parent, rel)
        put == << PutReq(target, data, r) >>
    IN  IF path0 = NoneURL /\ id = NoSeg
        THEN [obj |-> o, sent |-> <<>>, err |-> "TypeError"]
        ELSE IF r.status = 302
        THEN (IF r.location = NoneURL
              THEN [obj |-> o, sent |-> put, err |-> "IndexError"]
              ELSE [obj |-> [o EXCEPT !.url = r.location, !.id = id],
                    sent |-> put, err |-> NoErr])
        ELSE IF r.status \notin {204, 201}
        THEN [obj |-> o, sent |-> put, err |-> "PutError"]
        ELSE [obj |-> [o EXCEPT !.url = target, !.id = id0], sent |-> put, err |-> NoErr]

CreateObjectMutBindFirst(o, data, id0, path0, r) ==
    LET id == IF id0 = NoSeg /\ path0 # NoneURL /\ PathEndsWithIcs(path0)
              THEN IdFromPath(path0)
              ELSE IF id0 = NoSeg
              THEN (IF o.instance.kind \in SupportedKinds THEN o.instance.uid ELSE NoSeg)
              ELSE id0
        rel == IF path0 = NoneURL THEN SegRef(id \o <<Ics>>) ELSE path0
        target == Join(o.parent, rel)
        put == << PutReq(target, data, r) >>
    IN  IF path0 = NoneURL /\ id = NoSeg
        THEN (* None + ".ics" *)
             [obj |-> o, sent |-> <<>>, err |-> "TypeError"]
        ELSE IF r.status = 302
        THEN (IF r.location = NoneURL
              THEN (* no 'location' header: [...][0] *)
                   [obj |-> o, sent |-> put, err |-> "IndexError"]
              ELSE [obj |-> [o EXCEPT !.url = r.location, !.id = id],
                    sent |-> put, err |-> NoErr])
        ELSE IF r.status \notin {204, 201}
        THEN [obj |-> [o EXCEPT !.url = target, !.id = id], sent |-> put, err |-> "PutError"]
        ELSE [obj |-> [o EXCEPT !.url = target, !.id = id], sent |-> put, err |-> NoErr]

CreateObject(o, data, id0, path0, r) ==
    LET id == IF id0 = NoSeg /\ path0 # NoneURL /\ PathEndsWithIcs(path0)
              THEN IdFromPath(path0)
              ELSE IF id0 = NoSeg
              THEN (IF o.instance.kind \in SupportedKinds THEN o.instance.uid ELSE NoSeg)
              ELSE id0
        rel == IF path0 = NoneURL THEN SegRef(id \o <<Ics>>) ELSE path0
        target == Join(o.parent, rel)
        put == << PutReq(target, data, r) >>
    IN  IF path0 = NoneURL /\ id = NoSeg
        THEN (* None + ".ics" *)
             [obj |-> o, sent |-> <<>>, err |-> "TypeError"]
        ELSE IF r.status = 302
        THEN (IF r.location = NoneURL
              THEN (* no 'location' header: [...][0] *)
                   [obj |-> o, sent |-> put, err |-> "IndexError"]
              ELSE [obj |-> [o EXCEPT !.url = r.location, !.id = id],
                    sent |-> put, err |-> NoErr])
        ELSE IF r.status \notin {204, 201}
        THEN [obj |-> o, sent |-> put, err |-> "PutError"]
        ELSE [obj |-> [o EXCEPT !.url = target, !.id = id], sent |-> put, err |-> NoErr]

SaveObjectMutAlwaysCreate(o, r) ==
    CreateObject(o, Serialize(o.instance), o.id,
                 IF o.url # NoneURL THEN PathOf(o.url) ELSE NoneURL, r)

SaveObject(o, r) ==
    IF o.instance # NoInst
    THEN CreateObject(o, Serialize(o.instance), o.id,
                      IF o.url # NoneURL THEN PathOf(o.url) ELSE NoneURL, r)
    ELSE [obj |-> o, sent |-> <<>>, err |-> NoErr]

--------------------------------------------------------------------------
(* The REPORT operations of Calendar.  c is the Calendar, cl the session,
   r the server's reply to the REPORT. *)

CalendarDataTag == "{urn:ietf:params:xml:ns:caldav}calendar-data"

(* Event(client, url=..., data=..., parent=..., id=...) and Todo(...):
   DAVObject.__init__ joins the url onto the session's base URL, then a
   given data goes through set_data *)
NewObject(cl, url, data, parent, id) ==
    LET o == [url |-> IF url # NoneURL THEN Join(cl.url, url) ELSE NoneURL,
              id |-> id, data |-> NoText, instance |-> NoInst, parent |-> parent]
    IN  IF data # NoText THEN SetData(o, data) ELSE [obj |-> o, err |-> NoErr]

(* date_search: client.report is called directly, then every entry kept by
   _handle_prop_response becomes an Event *)
DateSearch(c, cl, r) ==
    LET p == HandlePropResponse(r.entries, <<CalendarDataTag>>, None, "text")
        made == [h \in DOMAIN p.props |->
                    NewObject(cl, Join(c.url, h), p.props[h][CalendarDataTag], c.url, NoSeg)]
        s == << Req("report", c.url, r) >>
    IN  IF p.err # NoErr THEN [sent |-> s, err |-> p.err, ret |-> {}]
        ELSE IF \E h \in DOMAIN made : made[h].err # NoErr
        THEN [sent |-> s, err |-> "ParseError", ret |-> {}]
        ELSE [sent |-> s, err |-> NoErr, ret |-> { made[h].obj : h \in DOMAIN made }]

(* todos: the same steps with another filter, making Todo objects *)
Todos(c, cl, r) ==
    LET p == HandlePropResponse(r.entries, <<CalendarDataTag>>, None, "text")
        made == [h \in DOMAIN p.props |->
                    NewObject(cl, Join(c.url, h), p.props[h][CalendarDataTag], c.url, NoSeg)]
        s == << Req("report", c.url, r) >>
    IN  IF p.err # NoErr THEN [sent |-> s, err |-> p.err, ret |-> {}]
        ELSE IF \E h \in DOMAIN made : made[h].err # NoErr
        THEN [sent |-> s, err |-> "ParseError", ret |-> {}]
        ELSE [sent |-> s, err |-> NoErr, ret |-> { made[h].obj : h \in DOMAIN made }]

(* event_by_uid: the REPORT goes through _query; the first response element
   of the body, whatever its status line, becomes the Event *)
EventByUid(c, cl, uid, r) ==
    LET q == Query("report", NoExpected, r)
        s == << Req("report", c.url, r) >>
    IN  IF q.err # NoErr THEN [sent |-> s, err |-> q.err, ret |-> NoObj]
        ELSE IF r.status = 404 THEN [sent |-> s, err |-> "NotFoundError", ret |-> NoObj]
        ELSE IF r.status = 400 THEN [sent |-> s, err |-> "ReportError", ret |-> NoObj]
        ELSE IF r.entries # <<>>
        THEN LET href == r.entries[1].href
                 data == r.entries[1].elems[CalendarDataTag].text
                 e == NewObject(cl, href, data, c.url, NoSeg)
             IN  [sent |-> s, err |-> e.err,
                  ret |-> IF e.err = NoErr THEN e.obj ELSE NoObj]
        ELSE [sent |-> s, err |-> "NotFoundError", ret |-> NoObj]

--------------------------------------------------------------------------
(* Objects the calls below act on *)

Verbs == {"propfind", "proppatch", "mkcalendar", "report"}
Expected == {NoExpected, 201, 207}

Base == MkURL("h1", <<Home>>, TRUE)
SelfURLs == { MkURL("h1", <<Home>>, TRUE), MkURL("h1", <<Home>>, FALSE) }

(* DAVClient(url): the session as constructed, and a session with no
   Principal object made yet *)
Session == [url |-> Base]
NoPrincipals == <<>>

--------------------------------------------------------------------------
(* The base operations of DAVObject.  They keep no state between calls, so
   a behaviour is one call: its inputs are drawn from the sets above. *)

Init ==
    /\ op = "init"
    /\ arg = [url |-> NoneURL]
    /\ sent = <<>>
    /\ err = NoErr
    /\ ret = None
    /\ cal = NoCal
    /\ obj = NoObj
    /\ client = Session
    /\ principals = NoPrincipals

DoQuery ==
    /\ op = "init"
    /\ \E verb \in Verbs, expected \in Expected, st \in Statuses, url \in SelfURLs :
        LET q == Query(verb, expected, Reply(st))
        IN  /\ op' = "_query"
            /\ arg' = [url |-> url, verb |-> verb, expected |-> expected]
            /\ sent' = << Req(verb, url, Reply(st)) >>
            /\ err' = q.err
            /\ ret' = IF q.err = NoErr THEN q.resp ELSE Reply(0)
            /\ UNCHANGED <<cal, obj, client, principals>>

DoHandlePropResponse ==
    /\ op = "init"
    /\ \E entries \in EntryLists, type \in {None, CalendarTag}, what \in {"tag", "text"} :
        LET p == HandlePropResponse(entries, <<ResourceTypeTag>>, type, what)
        IN  /\ op' = "_handle_prop_response"
            /\ arg' = [url |-> NoneURL, entries |-> entries, type |-> type, what |-> what]
            /\ sent' = <<>>
            /\ err' = p.err
            /\ ret' = p.props
            /\ UNCHANGED <<cal, obj, client, principals>>

DoChildren ==
    /\ op = "init"
    /\ \E url \in SelfURLs, type \in {None, CalendarTag},
       st \in {207, 404, 500}, entries \in EntryLists :
        LET r == Response(st, NoneURL, entries)
            c == Children(url, type, r)
        IN  /\ op' = "children"
            /\ arg' = [url |-> url, type |-> type]
            /\ sent' = << Req("propfind", url, r) >>
            /\ err' = c.err
            /\ ret' = c.ret
            /\ UNCHANGED <<cal, obj, client, principals>>

DoDelete ==
    /\ op = "init"
    /\ \E url \in SelfURLs \cup {NoneURL}, st \in Statuses :
        LET d == Delete(url, Reply(st))
        IN  /\ op' = "delete"
            /\ arg' = [url |-> url]
            /\ sent' = d.sent
            /\ err' = d.err
            /\ ret' = None
            /\ UNCHANGED <<cal, obj, client, principals>>

(* the bodies get_properties reads: a display name per response element *)
DisplayNameTag == "{DAV:}displayname"

NamedEntries ==
    { [href |-> h, status |-> s,
       elems |-> [t \in {DisplayNameTag} |-> [kids |-> <<>>, text |-> n]]] :
      h \in { MkRef(TRUE, <<Home>>, FALSE), MkRef(TRUE, <<Home>>, TRUE),
              MkRef(TRUE, <<Home, SegA>>, TRUE) },
      s \in StatusLines, n \in {"x", "y"} }

DoGetProperties ==
    /\ op = "init"
    /\ \E url \in SelfURLs, st \in {207, 404},
          entries \in SeqsUpTo(NamedEntries, MaxEntries) :
        LET g == GetProperties(url, <<DisplayNameTag>>, Response(st, NoneURL, entries))
        IN  /\ op' = "get_properties"
            /\ arg' = [url |-> url]
            /\ sent' = g.sent
            /\ err' = g.err
            /\ ret' = g.ret
            /\ UNCHANGED <<cal, obj, client, principals>>

(* the bodies set_properties reads: the status lines of a PROPPATCH reply *)
PatchLines == SeqsUpTo(StatusLines, MaxEntries)

DoSetProperties ==
    /\ op = "init"
    /\ \E url \in SelfURLs, st \in {200, 207, 404, 500}, lines \in PatchLines :
        LET r == PatchReply(st, IF st < 400 THEN lines ELSE <<>>)
            p == SetProperties(url, r)
        IN  /\ op' = "set_properties"
            /\ arg' = [url |-> url]
            /\ sent' = p.sent
            /\ err' = p.err
            /\ ret' = IF p.err = NoErr THEN url ELSE NoneURL
            /\ UNCHANGED <<cal, obj, client, principals>>

Next ==
    \/ DoQuery
    \/ DoHandlePropResponse
    \/ DoChildren
    \/ DoDelete
    \/ DoGetProperties
    \/ DoSetProperties

Spec == Init /\ [][Next]_vars

--------------------------------------------------------------------------
(* Properties of the base operations, checked under Spec *)

Is200(e) == EndsWith(e.status, OK200)
Is404(e) == EndsWith(e.status, NotFound404)

(* C1: _query, for any verb, reply status and expected status: a 404 raises
   NotFoundError even when an expected status was given; otherwise a status
   >= 400 or one that differs from the given expected status raises the
   error of the verb; otherwise the reply itself is returned. *)
C1_QueryMapsStatus ==
    op = "_query" =>
        LET st == sent[1].reply.status
            bad == st >= 400 \/ (arg.expected # NoExpected /\ st # arg.expected)
        IN  /\ Len(sent) = 1 /\ sent[1].verb = arg.verb /\ sent[1].url = arg.url
            /\ st = 404 => err = "NotFoundError"
            /\ (st # 404 /\ bad) =>
                   /\ err = exception_by_method(arg.verb)
                   /\ err \notin {NoErr, "NotFoundError"}
            /\ (st # 404 /\ ~bad) => (err = NoErr /\ ret = sent[1].reply)

C1_Witness ==
    /\ op = "_query"
    /\ sent[1].reply.status = 404
    /\ arg.expected = 201
    /\ err = "NotFoundError"

(* C2 as stated: for any list of response elements, every element with
   status "404 Not Found" is absent from the returned mapping, every element
   with status "200 OK" is present under its href, and an element with any
   other status makes the call raise ReportError and return nothing. *)
C2_Original ==
    op = "_handle_prop_response" =>
        LET es == arg.entries
        IN  /\ (\E i \in DOMAIN es : ~Is200(es[i]) /\ ~Is404(es[i]))
                   => (err = "ReportError" /\ ret = <<>>)
            /\ err = NoErr =>
                   \A i \in DOMAIN es :
                       /\ Is404(es[i]) => es[i].href \notin DOMAIN ret
                       /\ Is200(es[i]) => es[i].href \in DOMAIN ret

(* C2 amended: a "404 Not Found" element is absent from the returned mapping
   unless a "200 OK" element of the same list carries the same href (the
   mapping is keyed by href, and that key is then present); every "200 OK"
   element is present under its href; an element with any other status makes
   the call raise ReportError and return nothing, and without such an
   element the call returns. *)
C2_Amended ==
    op = "_handle_prop_response" =>
        LET es == arg.entries
            other == \E i \in DOMAIN es : ~Is200(es[i]) /\ ~Is404(es[i])
        IN  /\ other => (err = "ReportError" /\ ret = <<>>)
            /\ ~other => err = NoErr
            /\ err = NoErr =>
                   /\ DOMAIN ret = { es[i].href : i \in { j \in DOMAIN es : Is200(es[j]) } }
                   /\ \A i \in DOMAIN es :
                          (Is404(es[i]) /\ \A j \in DOMAIN es :
                                               Is200(es[j]) => es[j].href # es[i].href)
                              => es[i].href \notin DOMAIN ret

C2_Witness ==
    /\ op = "_handle_prop_response"
    /\ err = NoErr
    /\ \E i, j \in DOMAIN arg.entries :
           /\ Is404(arg.entries[i]) /\ arg.entries[i].href \notin DOMAIN ret
           /\ Is200(arg.entries[j]) /\ arg.entries[j].href \in DOMAIN ret

(* C3: whatever the server lists and whatever the trailing-slash state of
   the resource URL and of the listed hrefs, children() returns no pair whose
   URL, trailing slash stripped, is the resource's own URL, trailing slash
   stripped. *)
C3_ChildrenExcludeSelf ==
    (op = "children" /\ err = NoErr) =>
        \A c \in ret : StripTrailingSlash(c[1]) # StripTrailingSlash(arg.url)

(* the listing holds the resource itself in the other trailing-slash state,
   next to a real child that is returned *)
C3_Witness ==
    /\ op = "children"
    /\ err = NoErr
    /\ ret # {}
    /\ \E i \in DOMAIN sent[1].reply.entries :
           LET e == sent[1].reply.entries[i]
               u == Join(arg.url, e.href)
           IN  /\ Is200(e)
               /\ StripTrailingSlash(u) = StripTrailingSlash(arg.url)
               /\ u # arg.url

(* C8: delete() on a resource with a URL issues exactly one DELETE, at that
   URL, and succeeds on 200, 204 and 404; any other status raises
   DeleteError; a resource with no URL issues no request. *)
C8_DeleteStatuses ==
    op = "delete" =>
        IF arg.url # NoneURL
        THEN /\ Len(sent) = 1
             /\ sent[1].verb = "delete"
             /\ sent[1].url = arg.url
             /\ sent[1].reply.status \in {200, 204, 404} => err = NoErr
             /\ sent[1].reply.status \notin {200, 204, 404} => err = "DeleteError"
        ELSE sent = <<>> /\ err = NoErr

C8_Witness ==
    /\ op = "delete"
    /\ arg.url # NoneURL
    /\ Len(sent) = 1
    /\ sent[1].reply.status = 404
    /\ err = NoErr

(* the response elements _handle_prop_response keeps (status line ending
   with 200 OK) whose href is h, by position *)
KeptAt(entries, h) ==
    { i \in DOMAIN entries : Is200(entries[i]) /\ entries[i].href = h }

(* the property map of the last of them: a later element with the same
   href replaces an earlier one *)
MapAt(entries, h) ==
    LET i == CHOOSE k \in KeptAt(entries, h) : \A m \in KeptAt(entries, h) : m <= k
    IN  [t \in {DisplayNameTag} |-> entries[i].elems[t].text]

(* the PROPFIND was answered without error and its body could be read *)
PropfindRead ==
    /\ op = "get_properties"
    /\ sent[1].reply.status < 400
    /\ \A i \in DOMAIN sent[1].reply.entries :
          Is200(sent[1].reply.entries[i]) \/ Is404(sent[1].reply.entries[i])

(* C16: get_properties returns the property map of the response element
   whose href is the resource's URL path; when there is none, of the
   element whose href is that path followed by "/"; when there is neither
   it fails with the path-handling error and returns nothing, whatever
   other elements the response holds.  (The elements are those the
   multistatus reading keeps, see C2.) *)
C16_GetPropertiesByPath ==
    PropfindRead =>
        LET entries == sent[1].reply.entries
            path == PathOf(arg.url)
            slashed == ExchangePath(path)
        IN  IF KeptAt(entries, path) # {}
            THEN err = NoErr /\ ret = MapAt(entries, path)
            ELSE IF KeptAt(entries, slashed) # {}
            THEN err = NoErr /\ ret = MapAt(entries, slashed)
            ELSE err = PathError /\ ret = <<>>

(* the href with the added slash is used, next to an element of another
   resource *)
C16_Witness ==
    /\ PropfindRead
    /\ err = NoErr
    /\ ~arg.url.slash
    /\ Len(sent[1].reply.entries) = 2
    /\ sent[1].reply.entries[1].href = MkRef(TRUE, <<Home, SegA>>, TRUE)
    /\ Is200(sent[1].reply.entries[1])
    /\ sent[1].reply.entries[2].href = ExchangePath(PathOf(arg.url))
    /\ ret[DisplayNameTag] = sent[1].reply.entries[2].elems[DisplayNameTag].text
    /\ ret[DisplayNameTag] # sent[1].reply.entries[1].elems[DisplayNameTag].text

(* C17: set_properties sends exactly one PROPPATCH; it returns (the object
   itself) only if every status line of the response ends with "200 OK",
   and a status line that does not makes it fail with PropsetError. *)
C17_SetPropertiesAllOk ==
    op = "set_properties" =>
        LET lines == sent[1].reply.entries
        IN  /\ Len(sent) = 1
            /\ sent[1].verb = "proppatch"
            /\ sent[1].url = arg.url
            /\ err = NoErr => /\ \A i \in DOMAIN lines : Is200(lines[i])
                              /\ ret = arg.url
            /\ (\E i \in DOMAIN lines : ~Is200(lines[i])) => err = "PropsetError"

(* the first status line reads 200 OK, a later one does not *)
C17_Witness ==
    /\ op = "set_properties"
    /\ Len(sent[1].reply.entries) = 2
    /\ Is200(sent[1].reply.entries[1])
    /\ ~Is200(sent[1].reply.entries[2])
    /\ err = "PropsetError"

--------------------------------------------------------------------------
(* Calendar: one Calendar object, constructed unbound (Calendar(client,
   name=, parent=, id=), as CalendarSet.make_calendar does) or bound
   (CalendarSet.calendar(name, cal_id)), then saved and deleted. *)

CalIds == {NoSeg, SegA, SegB}
CalNames == {NoSeg, SegA, SegB}
FreshIds == { <<"uuid1">>, <<"uuid2">> }
Parents == { MkURL("h1", <<Home>>, TRUE), MkURL("h1", <<Home>>, FALSE) }

MkStatuses == {200, 201, 207, 404, 500}
PatchReplies == { PatchReply(207, << <<"HTTP/1.1">> \o OK200 >>),
                  PatchReply(207, << <<"HTTP/1.1">> \o OK200,
                                     <<"HTTP/1.1", "403", "Forbidden">> >>),
                  PatchReply(200, <<>>),
                  PatchReply(404, <<>>),
                  PatchReply(500, <<>>) }
DeleteStatuses == {200, 204, 404, 500}
ProbeStatuses == {200, 302, 404, 500}

UnboundCalendars ==
    { [url |-> NoneURL, id |-> i, name |-> n, parent |-> p] :
      i \in CalIds, n \in CalNames, p \in Parents }

BoundCalendars ==
    { [url |-> Join(p, SegRef(i)), id |-> i, name |-> n, parent |-> p] :
      i \in CalIds \ {NoSeg}, n \in CalNames, p \in Parents }

InitCalendar ==
    /\ op = "init"
    /\ arg = [pre |-> NoCal]
    /\ sent = <<>>
    /\ err = NoErr
    /\ ret = None
    /\ cal \in UnboundCalendars \cup BoundCalendars
    /\ obj = NoObj
    /\ client = Session
    /\ principals = NoPrincipals

CalendarSaveUnbound ==
    /\ cal.url = NoneURL
    /\ \E fresh \in FreshIds, mk \in MkStatuses, pp \in PatchReplies,
          dl \in DeleteStatuses, probe \in ProbeStatuses :
        LET r == SaveCalendar(cal, fresh, Reply(mk), pp, Reply(dl), Reply(probe))
        IN  /\ op' = "Calendar.save"
            /\ arg' = [pre |-> cal]
            /\ sent' = r.sent
            /\ err' = r.err
            /\ ret' = None
            /\ cal' = r.cal
            /\ UNCHANGED <<obj, client, principals>>

CalendarSaveBound ==
    /\ cal.url # NoneURL
    /\ LET r == SaveCalendar(cal, NoSeg, Reply(0), Reply(0), Reply(0), Reply(0))
       IN  /\ op' = "Calendar.save"
           /\ arg' = [pre |-> cal]
           /\ sent' = r.sent
           /\ err' = r.err
           /\ ret' = None
           /\ cal' = r.cal
           /\ UNCHANGED <<obj, client, principals>>

CalendarDelete ==
    \E st \in DeleteStatuses :
        LET d == Delete(cal.url, Reply(st))
        IN  /\ op' = "Calendar.delete"
            /\ arg' = [pre |-> cal]
            /\ sent' = d.sent
            /\ err' = d.err
            /\ ret' = None
            /\ UNCHANGED <<cal, obj, client, principals>>

NextCalendar ==
    \/ CalendarSaveUnbound
    \/ CalendarSaveBound
    \/ CalendarDelete

SpecCalendar == InitCalendar /\ [][NextCalendar]_vars

--------------------------------------------------------------------------
(* Properties of Calendar creation, checked under SpecCalendar *)

Last(q) == q[Len(q)]

(* a save that created: the Calendar was unbound and the call returned *)
Created == op = "Calendar.save" /\ arg.pre.url = NoneURL /\ err = NoErr

(* the save got 201 from MKCALENDAR and its PROPPATCH then failed *)
PatchFailed ==
    /\ op = "Calendar.save"
    /\ Len(sent) >= 2
    /\ sent[1].verb = "mkcalendar" /\ sent[1].reply.status = 201
    /\ sent[2].verb = "proppatch"
    /\ SetProperties(sent[2].url, sent[2].reply).err # NoErr

IdURL == Join(cal.parent, SegRef(cal.id))
NameURL == Join(cal.parent, SegRef(cal.name))

(* C4: when creation gets 201 from MKCALENDAR and the display-name PROPPATCH
   then fails, a DELETE is issued at the just-created id-based URL after the
   PROPPATCH, and the caller receives the error of the PROPPATCH, whatever
   status the DELETE returns. *)
C4_RollbackKeepsError ==
    PatchFailed =>
        /\ Len(sent) = 3
        /\ sent[3].verb = "delete"
        /\ sent[3].url = IdURL
        /\ sent[1].url = IdURL
        /\ err = SetProperties(sent[2].url, sent[2].reply).err

(* C9: after save succeeds on an unbound Calendar its URL ends in "/", for
   every id, display name and probe outcome. *)
C9_CreatedUrlEndsInSlash ==
    Created => EndsWithSlash(cal.url)

(* the name-based URL was adopted and the separator appended to it *)
C9_Witness ==
    /\ Created
    /\ cal.name # NoSeg /\ cal.name # cal.id
    /\ Last(sent).reply.status # 404
    /\ ~EndsWithSlash(NameURL)
    /\ cal.url = AppendSlash(NameURL)

(* C10 as stated (URLs compared up to the path separator that save
   appends): after a successful creation the URL is the parent URL joined
   with the display name if and only if the probe of that URL returned a
   status other than 404; otherwise it is the parent URL joined with the id;
   a 404 probe is not an error of the creation. *)
C10_Original ==
    /\ Created =>
           /\ (StripTrailingSlash(cal.url) = StripTrailingSlash(NameURL))
                  <=> (Last(sent).reply.status # 404)
           /\ Last(sent).reply.status = 404
                  => StripTrailingSlash(cal.url) = StripTrailingSlash(IdURL)
    /\ (op = "Calendar.save" /\ sent # <<>> /\ Last(sent).verb = "request")
           => err = NoErr

(* C10 amended: after a successful creation the URL is the parent URL joined
   with the display name when the probe returned a status other than 404,
   and the parent URL joined with the id when it returned 404 (one and the
   same URL when the display name equals the id); a 404 probe is not an
   error of the creation. *)
C10_Amended ==
    /\ Created =>
           /\ Last(sent).verb = "request" /\ Last(sent).url = NameURL
           /\ Last(sent).reply.status # 404
                  => StripTrailingSlash(cal.url) = StripTrailingSlash(NameURL)
           /\ Last(sent).reply.status = 404
                  => StripTrailingSlash(cal.url) = StripTrailingSlash(IdURL)
    /\ (op = "Calendar.save" /\ sent # <<>> /\ Last(sent).verb = "request")
           => err = NoErr

(* a creation whose probe returned 404 and kept the id-based URL, the
   name-based one being another URL *)
C10_Witness ==
    /\ Created
    /\ Last(sent).reply.status = 404
    /\ cal.name # NoSeg
    /\ StripTrailingSlash(cal.url) = StripTrailingSlash(IdURL)
    /\ StripTrailingSlash(cal.url) # StripTrailingSlash(NameURL)

(* the positions in the log of the requests with a given verb *)
Pos(verb) == { i \in DOMAIN sent : sent[i].verb = verb }

Creation == op = "Calendar.save" /\ arg.pre.url = NoneURL

(* C19: the requests of one Calendar creation come in this order:
   MKCALENDAR at the id-based URL is the first request and the only
   MKCALENDAR; a PROPPATCH comes only right after a MKCALENDAR answered 201
   and only when a display name was given; the name-based probe comes only
   last, after a 201 and after a PROPPATCH, if any, that succeeded; a
   DELETE comes only after a PROPPATCH that failed.  When MKCALENDAR is
   answered by anything but 201 the creation fails and nothing follows. *)
C19_CreationOrder ==
    Creation =>
        /\ Pos("mkcalendar") = {1}
        /\ sent[1].url = IdURL
        /\ \A i \in DOMAIN sent :
              sent[i].verb \in {"mkcalendar", "proppatch", "delete", "request"}
        /\ \A i \in Pos("proppatch") :
              /\ i = 2
              /\ sent[1].reply.status = 201
              /\ arg.pre.name # NoSeg
        /\ \A i \in Pos("request") :
              /\ i = Len(sent)
              /\ sent[1].reply.status = 201
              /\ Pos("delete") = {}
              /\ \A j \in Pos("proppatch") :
                    SetProperties(sent[j].url, sent[j].reply).err = NoErr
        /\ \A i \in Pos("delete") :
              /\ i = 3
              /\ PatchFailed
        /\ sent[1].reply.status # 201 => (err # NoErr /\ Len(sent) = 1)

(* a creation that ran MKCALENDAR, a failing PROPPATCH and the DELETE *)
C19_Witness ==
    /\ Creation
    /\ Len(sent) = 3
    /\ sent[1].verb = "mkcalendar"
    /\ sent[2].verb = "proppatch"
    /\ sent[3].verb = "delete"
    /\ sent[3].url = IdURL

(* C21: when save on an unbound Calendar fails (MKCALENDAR not answered by
   201, or the PROPPATCH failed and the creation was rolled back), the
   Calendar is unbound afterwards: it has no URL, so that the next save
   runs the creation again. *)
C21_FailedCreationStaysUnbound ==
    (Creation /\ err # NoErr) => cal.url = NoneURL

--------------------------------------------------------------------------
(* CalendarObjectResource: one Event or Todo, constructed unbound (no url)
   or from a listing (url, no id), whose text and parsed form are set, which
   is loaded and saved. *)

Uid1 == <<"u1">>
Uid2 == <<"u2">>

Instances == { Instance("vevent", Uid1), Instance("vevent", Uid2),
               Instance("vtodo", Uid1), Instance("vtimezone", Uid1) }
Texts == { Text(f, i) : f \in {"quirky", "canonical"}, i \in Instances } \cup {Garbage}

ObjParents == { MkURL("h1", <<Home>>, TRUE), MkURL("h1", <<Home>>, FALSE) }
ListedURLs == { MkURL("h1", <<Home, <<"e1", Ics>> >>, FALSE),
                MkURL("h1", <<Home, <<"e1">> >>, FALSE) }
Locations == { MkURL("h1", <<Home, <<"moved", Ics>> >>, FALSE),
               MkURL("h2", <<Home, <<"moved", Ics>> >>, FALSE),
               MkRef(TRUE, <<Home, <<"moved">> >>, FALSE) }

PutReplies == { Reply(st) : st \in Statuses \ {302} }
                  \cup { Response(302, l, <<>>) : l \in Locations \cup {NoneURL} }

InitObjects ==
    { [url |-> NoneURL, id |-> i, data |-> NoText, instance |-> NoInst, parent |-> p] :
      i \in {NoSeg, SegA}, p \in ObjParents }
    \cup
    { [url |-> u, id |-> NoSeg, data |-> NoText, instance |-> NoInst,
       parent |-> MkURL("h1", <<Home>>, TRUE)] : u \in ListedURLs }

InitObject ==
    /\ op = "init"
    /\ arg = [pre |-> NoObj]
    /\ sent = <<>>
    /\ err = NoErr
    /\ ret = None
    /\ cal = NoCal
    /\ obj \in InitObjects
    /\ client = Session
    /\ principals = NoPrincipals

ObjSetData ==
    \E data \in Texts :
        LET r == SetData(obj, data)
        IN  /\ op' = "set_data"
            /\ arg' = [pre |-> obj, data |-> data]
            /\ sent' = <<>>
            /\ err' = r.err
            /\ ret' = None
            /\ obj' = r.obj
            /\ UNCHANGED <<cal, client, principals>>

ObjSetInstance ==
    \E inst \in Instances :
        LET r == SetInstance(obj, inst)
        IN  /\ op' = "set_instance"
            /\ arg' = [pre |-> obj, inst |-> inst]
            /\ sent' = <<>>
            /\ err' = r.err
            /\ ret' = None
            /\ obj' = r.obj
            /\ UNCHANGED <<cal, client, principals>>

ObjLoad ==
    /\ obj.url # NoneURL
    /\ \E st \in {200, 404}, raw \in Texts :
        LET r == Load(obj, Reply(st), raw)
        IN  /\ op' = "load"
            /\ arg' = [pre |-> obj, data |-> raw]
            /\ sent' = r.sent
            /\ err' = r.err
            /\ ret' = None
            /\ obj' = r.obj
            /\ UNCHANGED <<cal, client, principals>>

ObjSave ==
    \E reply \in PutReplies :
        LET r == SaveObject(obj, reply)
        IN  /\ op' = "save"
            /\ arg' = [pre |-> obj]
            /\ sent' = r.sent
            /\ err' = r.err
            /\ ret' = None
            /\ obj' = r.obj
            /\ UNCHANGED <<cal, client, principals>>

NextObject ==
    \/ ObjSetData
    \/ ObjSetInstance
    \/ ObjLoad
    \/ ObjSave

SpecObject == InitObject /\ [][NextObject]_vars

--------------------------------------------------------------------------
(* Properties of CalendarObjectResource, checked under SpecObject *)

(* C5: in every reachable state, after any sequence of set_data,
   set_instance and load calls, failed ones included, the text and the
   parsed form are both absent, or both present with the text parsing to
   the parsed form. *)
C5_TextAndInstanceAgree ==
    \/ obj.data = NoText /\ obj.instance = NoInst
    \/ /\ obj.data # NoText
       /\ obj.instance # NoInst
       /\ Parses(obj.data)
       /\ ReadOne(obj.data) = obj.instance

(* the save of a resource with no id and no URL whose parsed form holds a
   supported component *)
UnboundSave ==
    /\ op = "save"
    /\ arg.pre.url = NoneURL
    /\ arg.pre.id = NoSeg
    /\ arg.pre.instance # NoInst
    /\ arg.pre.instance.kind \in SupportedKinds

(* C6: saving an unbound resource with no id and no URL whose parsed form
   holds a component with UID u issues the PUT at the parent URL joined with
   u + ".ics"; when the PUT returns 201 or 204 the id is u afterwards and
   the URL path ends in u + ".ics". *)
C6_UnboundSaveDerivesPath ==
    UnboundSave =>
        LET u == arg.pre.instance.uid
        IN  /\ Len(sent) = 1
            /\ sent[1].verb = "put"
            /\ sent[1].url = Join(obj.parent, SegRef(u \o <<Ics>>))
            /\ sent[1].body = Serialize(arg.pre.instance)
            /\ sent[1].reply.status \in {201, 204} =>
                   /\ err = NoErr
                   /\ obj.id = u
                   /\ ~obj.url.slash
                   /\ obj.url.segs # <<>>
                   /\ Last(obj.url.segs) = u \o <<Ics>>

C6_Witness ==
    /\ UnboundSave
    /\ sent[1].reply.status = 204
    /\ obj.id = Uid2
    /\ obj.url = Join(obj.parent, SegRef(Uid2 \o <<Ics>>))

(* C7: a save that issues its PUT: on 302 the URL becomes the value of the
   Location header; on 201 or 204 the URL becomes the PUT target; on every
   other status (404 and 200 among them) the save fails with PutError. *)
C7_SaveByPutStatus ==
    (op = "save" /\ sent # <<>>) =>
        LET r == sent[1].reply
        IN  /\ (r.status = 302 /\ r.location # NoneURL)
                   => (err = NoErr /\ obj.url = r.location)
            /\ r.status \in {201, 204}
                   => (err = NoErr /\ obj.url = sent[1].url)
            /\ r.status \notin {201, 204, 302} => err = "PutError"

(* a redirected create: the URL is the Location, not the PUT target *)
C7_Witness ==
    /\ op = "save"
    /\ sent # <<>>
    /\ sent[1].reply.status = 302
    /\ err = NoErr
    /\ obj.url = sent[1].reply.location
    /\ obj.url # sent[1].url

--------------------------------------------------------------------------
(* Principals of one session.  Several Principal objects share the session;
   the calls on them interleave in any order.  The server chooses the href
   of each calendar-home-set: relative, path-absolute, or qualified with
   the host the session started on or with another host. *)

Names == {"p1", "p2"}
Cals == <<"cals">>

(* the url a Principal is constructed with *)
PrincipalRef(p) == MkRef(TRUE, << <<p>> >>, FALSE)

HomeSetHrefs == { MkRef(FALSE, <<Cals>>, TRUE),
                  MkRef(TRUE, <<Cals>>, TRUE),
                  MkURL("h1", <<Cals>>, TRUE),
                  MkURL("h2", <<Cals>>, TRUE) }

(* a response element carrying one property whose value is an href *)
HrefEntry(href, tag, value) ==
    [href |-> href, status |-> <<"HTTP/1.1">> \o OK200,
     elems |-> [t \in {tag} |->
                   [kids |-> << [tag |-> HrefTag, text |-> value] >>,
                    text |-> NoneURL]]]

(* the replies to a depth-0 PROPFIND for one href-valued property of url *)
HrefReplies(url, tag, values) ==
    { Reply(404) } \cup
    { Response(207, NoneURL, << HrefEntry(h, tag, v) >>) :
        h \in { PathOf(url), ExchangePath(PathOf(url)), MkRef(TRUE, <<Home, SegA>>, TRUE) },
        v \in values }

(* the replies the getter consumes: none when the home set is cached *)
HomeSetReplies(pr) ==
    IF pr.calendar_home_set = NoneURL
    THEN HrefReplies(pr.url, HomeSetTag, HomeSetHrefs)
    ELSE { Reply(0) }

(* the replies to the listing PROPFIND of a CalendarSet *)
ListingReplies ==
    { Reply(404),
      Response(207, NoneURL,
               << [href |-> MkRef(TRUE, <<Cals, SegA>>, TRUE),
                   status |-> <<"HTTP/1.1">> \o OK200,
                   elems |-> [t \in {ResourceTypeTag} |->
                       [kids |-> << [tag |-> CollectionTag, text |-> None],
                                    [tag |-> CalendarTag, text |-> None] >>,
                        text |-> None]]] >>) }

InitPrincipal ==
    /\ op = "init"
    /\ arg = [p |-> "", pre |-> NoPrincipals, session |-> Session]
    /\ sent = <<>>
    /\ err = NoErr
    /\ ret = None
    /\ cal = NoCal
    /\ obj = NoObj
    /\ client = Session
    /\ principals = NoPrincipals

(* the Principal objects after a call on p that left it as pr *)
WithPrincipal(p, pr) ==
    [q \in DOMAIN principals \cup {p} |-> IF q = p THEN pr ELSE principals[q]]

Call(p) == [p |-> p, pre |-> principals, session |-> client]

PrincipalNew ==
    \E p \in Names \ DOMAIN principals, given \in BOOLEAN :
    \E r \in (IF given THEN { Reply(0) }
              ELSE HrefReplies(client.url, PrincipalTag, { PrincipalRef(p) })) :
        LET n == NewPrincipal(client, IF given THEN PrincipalRef(p) ELSE NoneURL, r)
        IN  /\ op' = "Principal"
            /\ arg' = Call(p)
            /\ sent' = n.sent
            /\ err' = n.err
            /\ ret' = None
            /\ principals' = IF n.err = NoErr THEN WithPrincipal(p, n.pr) ELSE principals
            /\ UNCHANGED <<cal, obj, client>>

PrincipalHomeSet ==
    \E p \in DOMAIN principals :
    \E r \in HomeSetReplies(principals[p]) :
        LET h == HomeSet(client, principals[p], r)
        IN  /\ op' = "calendar_home_set"
            /\ arg' = Call(p)
            /\ sent' = h.sent
            /\ err' = h.err
            /\ ret' = h.pr.calendar_home_set
            /\ principals' = WithPrincipal(p, h.pr)
            /\ client' = h.client
            /\ UNCHANGED <<cal, obj>>

PrincipalCalendars ==
    \E p \in DOMAIN principals :
    \E r \in HomeSetReplies(principals[p]), listing \in ListingReplies :
        LET h == HomeSet(client, principals[p], r)
            c == CalendarSetCalendars(h.pr.calendar_home_set, h.client, listing)
        IN  /\ op' = "calendars"
            /\ arg' = Call(p)
            /\ sent' = IF h.err # NoErr THEN h.sent ELSE h.sent \o c.sent
            /\ err' = IF h.err # NoErr THEN h.err ELSE c.err
            /\ ret' = IF h.err # NoErr THEN {} ELSE c.ret
            /\ principals' = WithPrincipal(p, h.pr)
            /\ client' = h.client
            /\ UNCHANGED <<cal, obj>>

PrincipalMakeCalendar ==
    \E p \in DOMAIN principals :
    \E r \in HomeSetReplies(principals[p]), name \in {NoSeg, SegA},
       mk \in {201, 500}, pp \in {200, 500} :
        LET h == HomeSet(client, principals[p], r)
            c == CalendarSetMakeCalendar(h.pr.calendar_home_set, h.client, name, SegB,
                     <<"uuid1">>, Reply(mk), PatchReply(pp, <<>>), Reply(204), Reply(404))
        IN  /\ op' = "make_calendar"
            /\ arg' = Call(p)
            /\ sent' = IF h.err # NoErr THEN h.sent ELSE h.sent \o c.sent
            /\ err' = IF h.err # NoErr THEN h.err ELSE c.err
            /\ ret' = None
            /\ cal' = IF h.err # NoErr THEN cal ELSE c.cal
            /\ principals' = WithPrincipal(p, h.pr)
            /\ client' = h.client
            /\ UNCHANGED obj

PrincipalCalendar ==
    \E p \in DOMAIN principals :
    \E r \in HomeSetReplies(principals[p]), name \in {NoSeg, SegA}, cal_id \in {NoSeg, SegB} :
        LET h == HomeSet(client, principals[p], r)
        IN  /\ op' = "Principal.calendar"
            /\ arg' = Call(p)
            /\ sent' = h.sent
            /\ err' = h.err
            /\ ret' = None
            /\ cal' = IF h.err # NoErr THEN cal
                      ELSE CalendarSetCalendar(h.pr.calendar_home_set, h.client, name, cal_id)
            /\ principals' = WithPrincipal(p, h.pr)
            /\ client' = h.client
            /\ UNCHANGED obj

(* CalendarSet.calendar on the CalendarSet a Principal has cached *)
DoCalendarSetCalendar ==
    \E p \in { q \in DOMAIN principals : principals[q].calendar_home_set # NoneURL } :
    \E name \in {NoSeg, SegA}, cal_id \in {NoSeg, SegB} :
        /\ op' = "CalendarSet.calendar"
        /\ arg' = Call(p)
        /\ sent' = <<>>
        /\ err' = NoErr
        /\ ret' = None
        /\ cal' = CalendarSetCalendar(principals[p].calendar_home_set, client, name, cal_id)
        /\ UNCHANGED <<obj, client, principals>>

NextPrincipal ==
    \/ PrincipalNew
    \/ PrincipalHomeSet
    \/ PrincipalCalendars
    \/ PrincipalMakeCalendar
    \/ PrincipalCalendar
    \/ DoCalendarSetCalendar

SpecPrincipal == InitPrincipal /\ [][NextPrincipal]_vars

--------------------------------------------------------------------------
(* Properties of Principal and CalendarSet, checked under SpecPrincipal *)

IsHomeSetPropfind(m) == m.verb = "propfind" /\ m.props = <<HomeSetTag>>

OnPrincipal == op \in {"calendar_home_set", "calendars", "make_calendar",
                       "Principal.calendar"}

(* C11: once a Principal's calendar-home-set has been resolved, no call on
   any Principal of the session changes its cached CalendarSet (the URL
   stays the same, also when another Principal's resolution repoints the
   session), and every later access on it (calendar_home_set, calendars,
   make_calendar, calendar) issues no calendar-home-set PROPFIND and works
   on that same CalendarSet. *)
C11_HomeSetCached ==
    \A q \in DOMAIN arg.pre :
        arg.pre[q].calendar_home_set # NoneURL =>
            LET chs == arg.pre[q].calendar_home_set
            IN  /\ principals[q].calendar_home_set = chs
                /\ (q = arg.p /\ OnPrincipal) =>
                    /\ \A i \in DOMAIN sent : ~IsHomeSetPropfind(sent[i])
                    /\ op = "calendar_home_set" => (err = NoErr /\ ret = chs)
                    /\ op \in {"make_calendar", "Principal.calendar"} => cal.parent = chs
                    /\ op = "calendars" => \A c \in ret : c.parent = chs

(* a listing through a home set that was cached before another Principal's
   resolution moved the session to a different host *)
C11_Witness ==
    /\ op = "calendars"
    /\ err = NoErr
    /\ ret # {}
    /\ arg.pre[arg.p].calendar_home_set # NoneURL
    /\ arg.pre[arg.p].calendar_home_set.host # arg.session.url.host
    /\ \E q \in DOMAIN principals :
          /\ q # arg.p
          /\ principals[q].calendar_home_set # NoneURL
          /\ principals[q].calendar_home_set.host = client.url.host

(* the call resolved the calendar-home-set of the Principal it was made on *)
Resolved ==
    /\ OnPrincipal
    /\ arg.pre[arg.p].calendar_home_set = NoneURL
    /\ principals[arg.p].calendar_home_set # NoneURL

(* the href the server returned in the calendar-home-set property *)
ReturnedHref == sent[1].reply.entries[1].elems[HomeSetTag].kids[1].text

HostDiffers(href, base) == href.host # NoHost /\ href.host # base.host

(* C12: a resolution changes the session's base URL exactly when the
   returned href carries a host other than the session's host before the
   call; then the session's host is the href's host and the CalendarSet's
   URL is on that host; for a relative or same-host href the session's base
   URL is what it was. *)
C12_RepointIffOtherHost ==
    Resolved =>
        LET before == arg.session.url
            differs == HostDiffers(ReturnedHref, before)
        IN  /\ (client.url # before) <=> differs
            /\ differs => /\ client.url.host = ReturnedHref.host
                          /\ principals[arg.p].calendar_home_set.host = ReturnedHref.host
            /\ ~differs => client.url = before

(* a resolution that moves a session already moved once back to the host
   it started on *)
C12_Witness ==
    /\ Resolved
    /\ arg.session.url.host = "h2"
    /\ ReturnedHref.host = "h1"
    /\ client.url.host = "h1"
    /\ client.url # Base

(* C13: Principal.calendar and CalendarSet.calendar return a Calendar and
   send nothing to the server, whatever the state of the Principal, also
   when its calendar-home-set has not been resolved. *)
C13_CalendarSendsNothing ==
    op \in {"Principal.calendar", "CalendarSet.calendar"} =>
        /\ sent = <<>>
        /\ err = NoErr

--------------------------------------------------------------------------
(* The REPORT operations of a Calendar.  They keep no state between calls,
   so a behaviour is one call.  The server chooses the status of the reply
   and the response elements of its body, each with an href, a status line
   and the calendar-data text. *)

ReportCalendars ==
    { [url |-> MkURL("h1", <<Home, SegA>>, TRUE), id |-> SegA, name |-> NoSeg,
       parent |-> MkURL("h1", <<Home>>, TRUE)] }

ReportStatuses == {200, 207, 400, 404, 500}

ReportHrefs == { MkRef(TRUE, <<Home, SegA, <<"e1", Ics>> >>, FALSE),
                 MkRef(FALSE, << <<"e2", Ics>> >>, FALSE) }

ReportTexts == { Text("canonical", Instance("vevent", Uid1)), Garbage }

ReportEntries ==
    { [href |-> h, status |-> s,
       elems |-> [t \in {CalendarDataTag} |-> [kids |-> <<>>, text |-> d]]] :
      h \in ReportHrefs, s \in StatusLines, d \in ReportTexts }

ReportReplies ==
    { Response(st, NoneURL, entries) :
      st \in ReportStatuses, entries \in SeqsUpTo(ReportEntries, MaxEntries) }

InitReport ==
    /\ op = "init"
    /\ arg = [uid |-> NoSeg]
    /\ sent = <<>>
    /\ err = NoErr
    /\ ret = None
    /\ cal \in ReportCalendars
    /\ obj = NoObj
    /\ client = Session
    /\ principals = NoPrincipals

CalendarDateSearch ==
    /\ op = "init"
    /\ \E r \in ReportReplies :
        LET d == DateSearch(cal, client, r)
        IN  /\ op' = "date_search"
            /\ arg' = [uid |-> NoSeg]
            /\ sent' = d.sent
            /\ err' = d.err
            /\ ret' = d.ret
            /\ UNCHANGED <<cal, obj, client, principals>>

CalendarTodos ==
    /\ op = "init"
    /\ \E r \in ReportReplies :
        LET d == Todos(cal, client, r)
        IN  /\ op' = "todos"
            /\ arg' = [uid |-> NoSeg]
            /\ sent' = d.sent
            /\ err' = d.err
            /\ ret' = d.ret
            /\ UNCHANGED <<cal, obj, client, principals>>

CalendarEventByUid ==
    /\ op = "init"
    /\ \E uid \in {Uid1, Uid2}, r \in ReportReplies :
        LET e == EventByUid(cal, client, uid, r)
        IN  /\ op' = "event_by_uid"
            /\ arg' = [uid |-> uid]
            /\ sent' = e.sent
            /\ err' = e.err
            /\ ret' = e.ret
            /\ UNCHANGED <<cal, obj, client, principals>>

NextReport ==
    \/ CalendarDateSearch
    \/ CalendarTodos
    \/ CalendarEventByUid

SpecReport == InitReport /\ [][NextReport]_vars

--------------------------------------------------------------------------
(* Properties of the REPORT operations, checked under SpecReport *)

(* C14: event_by_uid(uid) fails with NotFoundError on an HTTP 404, with
   ReportError on an HTTP 400 and with NotFoundError on a successful reply
   without response element; otherwise (the calendar-data being parseable
   text) it returns one Event whose URL is the first element's href, whose
   data is that element's calendar-data and whose id is uid. *)
C14_EventByUid ==
    op = "event_by_uid" =>
        LET r == sent[1].reply
        IN  /\ r.status = 404 => err = "NotFoundError"
            /\ r.status = 400 => err = "ReportError"
            /\ (r.status < 400 /\ r.entries = <<>>) => err = "NotFoundError"
            /\ (r.status < 400 /\ r.entries # <<>>
                  /\ Parses(Fix(r.entries[1].elems[CalendarDataTag].text))) =>
                    /\ err = NoErr
                    /\ ret.url = Join(client.url, r.entries[1].href)
                    /\ ret.data = Fix(r.entries[1].elems[CalendarDataTag].text)
                    /\ ret.id = arg.uid

(* C18: each operation that sends a REPORT (date_search, todos,
   event_by_uid) maps the status of the reply the same way before reading
   the body: 404 makes it fail with NotFoundError, any other status from
   400 up with ReportError. *)
C18_ReportStatusMapped ==
    op \in {"date_search", "todos", "event_by_uid"} =>
        LET r == sent[1].reply
        IN  /\ r.status = 404 => err = "NotFoundError"
            /\ (r.status >= 400 /\ r.status # 404) => err = "ReportError"

--------------------------------------------------------------------------
(* More properties of CalendarObjectResource, checked under SpecObject *)

(* a save of an object for which neither set_data nor set_instance nor
   load has stored anything *)
SaveOfNothing ==
    /\ op = "save"
    /\ arg.pre.data = NoText
    /\ arg.pre.instance = NoInst

(* C15 as stated: saving a CalendarObjectResource with neither the text nor
   the parsed form set fails, and no PUT is issued. *)
C15_Original ==
    SaveOfNothing => (err # NoErr /\ sent = <<>>)

(* C15: saving a CalendarObjectResource with neither the text nor the
   parsed form set issues no PUT, raises no error and leaves the object as
   it was. *)
C15_Amended ==
    SaveOfNothing => (err = NoErr /\ sent = <<>> /\ obj = arg.pre)

(* such a save on an object that has no URL and no id either *)
C15_Witness ==
    /\ SaveOfNothing
    /\ arg.pre.url = NoneURL
    /\ arg.pre.id = NoSeg
    /\ err = NoErr

(* a save of an object that an earlier successful create has bound: it has
   a URL and an id *)
Resave ==
    /\ op = "save"
    /\ arg.pre.url # NoneURL
    /\ arg.pre.id # NoSeg
    /\ arg.pre.instance # NoInst

(* two URLs of one resource: the same path, and the same host where both
   name one *)
SameResource(u, v) ==
    /\ PathOf(u) = PathOf(v)
    /\ (u.host = NoHost \/ v.host = NoHost \/ u.host = v.host)

(* C20: re-saving a CalendarObjectResource that a successful create has
   bound sends one PUT at the resource's current URL and leaves its id
   unchanged; after a 201 or 204 its URL is the one it had before. *)
C20_ResaveInPlace ==
    Resave =>
        /\ Len(sent) = 1
        /\ sent[1].verb = "put"
        /\ SameResource(sent[1].url, arg.pre.url)
        /\ obj.id = arg.pre.id
        /\ sent[1].reply.status \in {201, 204} => SameResource(obj.url, arg.pre.url)

(* C22: when the save of a CalendarObjectResource fails with PutError, its
   URL and its id are what they were before the save; an unbound resource
   whose create failed is still unbound. *)
C22_PutErrorKeepsUrlAndId ==
    (op = "save" /\ err = "PutError") =>
        /\ obj.url = arg.pre.url
        /\ obj.id = arg.pre.id

(* a failed create of an unbound resource without id, for which the code
   had derived the id and the target of the PUT from the UID *)
C22_Witness ==
    /\ op = "save"
    /\ err = "PutError"
    /\ arg.pre.url = NoneURL
    /\ arg.pre.id = NoSeg
    /\ Len(sent) = 1
    /\ sent[1].url = Join(obj.parent, SegRef(obj.instance.uid \o <<Ics>>))
    /\ obj.url = NoneURL
    /\ obj.id = NoSeg

====
